---- MODULE Spec2Model ----
(***************************************************************************)
(* Data iterators of brainstorm (brainstorm/data_iterators.py): the shape  *)
(* validator, the progress reporter and the three iterators Undivided,     *)
(* Online and Minibatches, as generators driven by their caller.           *)
(*                                                                         *)
(* A dict of named arrays is a sequence of entries [key, value] in the     *)
(* dict's iteration order; an array is [has_shape, shape], shape being the *)
(* tuple of its extents (axis 0 is shape[1] here, axis 1 is shape[2]).     *)
(* A handler is [array_type], the set of objects that isinstance() accepts *)
(* for handler.array_type: "dict" stands for the mapping self.data, a key  *)
(* for the array stored under it.                                          *)
(***************************************************************************)
EXTENDS Integers, Sequences, FiniteSets, TLC

VARIABLES self, rnd, gen, obs

vars == <<self, rnd, gen, obs>>

\* Bounds of the model.
MaxN == 3
MaxBatch == 2
MaxPasses == 2
MaxSeed == 1

Inst == {1, 2}

Min2(a, b) == IF a < b THEN a ELSE b
Max2(a, b) == IF a > b THEN a ELSE b
SetMin(S) == CHOOSE x \in S : \A y \in S : x <= y
SetMax(S) == CHOOSE x \in S : \A y \in S : x >= y

RECURSIVE Prod(_)
Prod(seq) == IF seq = <<>> THEN 1 ELSE Head(seq) * Prod(Tail(seq))

RECURSIVE SumSeq(_)
SumSeq(seq) == IF seq = <<>> THEN 0 ELSE Head(seq) + SumSeq(Tail(seq))

\* ndarray.size
Size(shape) == Prod(shape)

\* value[:, start: stop]: a slice of axis 1, truncated to the array's extent.
Slice1(shape, start, stop) ==
    LET n == shape[2]
        lo == Min2(start, n)
        hi == Min2(stop, n)
    IN [shape EXCEPT ![2] = Max2(hi - lo, 0)]

\* The columns of the source array that value[:, start: stop] holds.
SliceLo(shape, start) == Min2(start, shape[2])
SliceHi(shape, start, stop) == Max2(Min2(stop, shape[2]), SliceLo(shape, start))

---------------------------------------------------------------------------
\* The inputs the model draws from.

Keys == <<"x", "y">>

NoShape == [has_shape |-> FALSE, shape |-> <<>>]

Array(shape) == [has_shape |-> TRUE, shape |-> shape]

Values ==
    {NoShape}
    \cup {Array(<<2, n>>) : n \in 0..MaxN}
    \cup {Array(<<2, n, 3>>) : n \in 0..MaxN}
    \cup {Array(<<1, n, 2, 2>>) : n \in 0..MaxN}

\* Keyword arguments **named_data: no, one or two named values.
NamedData ==
    {<<>>}
    \cup {<<[key |-> Keys[1], value |-> v]>> : v \in Values}
    \cup {<<[key |-> Keys[1], value |-> v], [key |-> Keys[2], value |-> w]>> :
            v \in Values, w \in Values}

\* The handlers that differ on the mapping or on one of its arrays.
Handlers(data) ==
    [array_type : SUBSET ({"dict"} \cup {data[k].key : k \in DOMAIN data})]

VerboseSettings == {"None", "True", "False"}

\* seed=None draws the seed from the global generator: it is one of these too.
Seeds == 0..MaxSeed

BatchSizes == 1..MaxBatch

---------------------------------------------------------------------------
\* _assert_correct_data_format(named_data): what it raises or returns.

BadEntry(e) == ~e.value.has_shape \/ Len(e.value.shape) < 3

assert_correct_data_format(named_data) ==
    LET bad == {k \in DOMAIN named_data : BadEntry(named_data[k])}
        nr_sequences == {named_data[k].value.shape[2] : k \in DOMAIN named_data}
    IN IF bad # {}
       THEN [exc |-> "IteratorValidationError",
             msg |-> IF ~named_data[SetMin(bad)].value.has_shape
                     THEN "no shape attribute"
                     ELSE "at least 3 dimensions",
             ret |-> -1]
       ELSE IF nr_sequences = {}
       THEN [exc |-> "ValueError", msg |-> "min() arg is an empty sequence",
             ret |-> -1]
       ELSE IF SetMin(nr_sequences) # SetMax(nr_sequences)
       THEN [exc |-> "IteratorValidationError",
             msg |-> "number of sequences must be equal", ret |-> -1]
       ELSE [exc |-> "", msg |-> "", ret |-> SetMin(nr_sequences)]

---------------------------------------------------------------------------
\* The progress reporters. A generator is [fn, maximum, i, pc]: pc names the
\* line of the yield it is suspended at.

Group(digit) == <<"=", "=", "=", "=", digit>>

bar ==
    Group("1") \o Group("2") \o Group("3") \o Group("4") \o Group("5")
    \o Group("6") \o Group("7") \o Group("8") \o Group("9") \o Group("0")

prefix == "["

\* suffix.format(elapsed_str): one token, the elapsed time is not modelled.
suffix == "] Took: {0}\n"

progress_bar(maximum) ==
    [fn |-> "progress_bar", maximum |-> maximum, i |-> 0, pc |-> "created"]

silence == [fn |-> "silence", maximum |-> 0, i |-> 0, pc |-> "created"]

\* math.trunc(progress / maximum * len(bar)), for progress >= 0 and maximum > 0.
\* The float result equals this exact quotient for progress <= maximum < 50
\* (the first deviation is progress 29 of maximum 50); for progress > maximum
\* both are at least len(bar), which is all the loop reads of them.
Trunc(progress, maximum) == (progress * Len(bar)) \div maximum

\* bar[i: j]
BarSlice(i, j) == SubSeq(bar, i + 1, Min2(j, Len(bar)))

\* next(p_bar) on a generator that has not started.
PBarNext(p) ==
    IF p.fn = "silence"
    THEN [p_bar |-> [p EXCEPT !.pc = "line29"], text |-> <<>>, exc |-> ""]
    ELSE [p_bar |-> [p EXCEPT !.pc = "line19", !.i = 0], text |-> <<prefix>>,
          exc |-> ""]

\* p_bar.send(progress) on a suspended generator.
PBarSend(p, progress) ==
    IF p.fn = "silence"
    THEN [p_bar |-> p, text |-> <<>>, exc |-> ""]
    ELSE IF p.pc # "line19"
    THEN [p_bar |-> [p EXCEPT !.pc = "returned"], text |-> <<>>,
          exc |-> "StopIteration"]
    ELSE IF p.maximum = 0
    THEN [p_bar |-> [p EXCEPT !.pc = "returned"], text |-> <<>>,
          exc |-> "ZeroDivisionError"]
    ELSE LET j == Trunc(progress, p.maximum)
             out == BarSlice(p.i, j)
         IN IF j < Len(bar)
            THEN [p_bar |-> [p EXCEPT !.i = j], text |-> out, exc |-> ""]
            ELSE [p_bar |-> [p EXCEPT !.i = j, !.pc = "line24"],
                  text |-> out \o <<suffix>>, exc |-> ""]

\* (self.verbose is None and verbose) or self.verbose
Verbose(self_verbose, verbose) ==
    (self_verbose = "None" /\ verbose) \/ self_verbose = "True"

---------------------------------------------------------------------------
\* The random generator of Seedable (brainstorm.randomness): a state in
\* 0..RndMod-1, set from the seed, that shuffle() reads and advances.

RndMod == 24

SeedableInit(seed) == seed % RndMod

Remove(seq, p) == SubSeq(seq, 1, p - 1) \o SubSeq(seq, p + 1, Len(seq))

RECURSIVE Permute(_, _)
Permute(seq, s) ==
    IF Len(seq) <= 1
    THEN seq
    ELSE LET p == (s % Len(seq)) + 1
         IN <<seq[p]>> \o Permute(Remove(seq, p), s \div Len(seq))

\* rnd.shuffle(indices): the permuted indices and the state it leaves.
RandomShuffle(state, seq) ==
    [seq |-> Permute(seq, state),
     rnd |-> IF Len(seq) <= 1 THEN state ELSE (state * 5 + 7) % RndMod]

\* np.arange(n)
Arange(n) == [k \in 1..n |-> k - 1]

---------------------------------------------------------------------------
\* Staging a batch.

IsInstance(object, handler) == object \in handler.array_type

\* arr[j: j + n] of a flat buffer of arr elements.
BufferSlice(arr, j, n) ==
    [off |-> Min2(j, arr), len |-> Min2(j + n, arr) - Min2(j, arr)]

RECURSIVE Offset(_, _)
\* j when the loop over the items reaches the k-th one.
Offset(shapes, k) ==
    IF k = 1 THEN 0 ELSE Offset(shapes, k - 1) + Size(shapes[k - 1])

\* device_data of the copy branch: every item is a view of arr, reshaped to
\* its source slice's shape, that set_from_numpy fills. shapes[k] is the shape
\* of the k-th val_s; lo..hi-1 are the columns of the source it holds.
CopyItems(data, shapes, los, his, arr) ==
    [k \in DOMAIN data |->
        LET b == BufferSlice(arr, Offset(shapes, k), Size(shapes[k]))
        IN [key |-> data[k].key,
            value |-> [shape |-> shapes[k], base |-> "arr", lo |-> los[k],
                       hi |-> his[k], off |-> b.off, len |-> b.len]]]

\* device_data of the zero-copy branch: slices of the arrays themselves.
SliceItems(data, shapes, los, his) ==
    [k \in DOMAIN data |->
        [key |-> data[k].key,
         value |-> [shape |-> shapes[k], base |-> "data", lo |-> los[k],
                    hi |-> his[k], off |-> 0, len |-> 0]]]

\* reshape() raises when the buffer slice has not the element count of the shape.
ReshapeFails(items) ==
    \E k \in DOMAIN items :
        items[k].value.base = "arr"
        /\ items[k].value.len # Size(items[k].value.shape)

NoBatch == [obj |-> "unbound", items |-> <<>>]

---------------------------------------------------------------------------
\* The state. self[i] holds the attributes of iterator object i, rnd[i] the
\* state of its random generator (self.rnd), gen[i] the frame of its running
\* generator (pc: new, failed, ready, yielded, exhausted, raised), and obs[i]
\* what the caller and the handler see of it: the constructor's arguments
\* and the validator's outcome, and, for the current pass, the batches
\* yielded, the calls made to the handler, the text printed, the values sent
\* to the progress reporter and the exception raised; orders lists, for every
\* completed pass, the indices it selected and the generator state it left.

NoObject ==
    [cls |-> "", data |-> <<>>, nr_sequences |-> -1, batch_size |-> -1,
     shuffle |-> FALSE, verbose |-> "None", size |-> -1]

NoFormat == [exc |-> "", msg |-> "", ret |-> -1]

NewFrame ==
    [pc |-> "new", line |-> 0, handler |-> [array_type |-> {}],
     need_copy |-> FALSE, arr |-> -1, indices |-> <<>>, i |-> 0,
     p_bar |-> silence, device_data |-> NoBatch]

NewObs ==
    [kwargs |-> <<>>, fmt |-> NoFormat, exc |-> "", out |-> <<>>,
     allocate |-> <<>>, set_from_numpy |-> 0, stdout |-> <<>>, sent |-> <<>>,
     passes |-> 0, orders |-> <<>>]

\* The observations of a pass that starts.
NewPass(o) ==
    [o EXCEPT !.exc = "", !.out = <<>>, !.allocate = <<>>,
              !.set_from_numpy = 0, !.stdout = <<>>, !.sent = <<>>,
              !.passes = @ + 1]

---------------------------------------------------------------------------
\* Construction: [fmt, rnd, object], object being the attributes set when
\* the validator returned.

\* sum(d.size for d in self.data.values())
TotalSize(data) ==
    SumSeq([k \in DOMAIN data |-> Size(data[k].value.shape)])

\* sum(d.shape[0] * np.prod(d.shape[2:]) for d in self.data.values())
OnlineSampleSize(data) ==
    SumSeq([k \in DOMAIN data |->
        data[k].value.shape[1]
        * Prod(SubSeq(data[k].value.shape, 3, Len(data[k].value.shape)))])

\* sum(d.shape[0] * np.prod(d.shape[2:]) * batch_size for d in ...)
MinibatchesSampleSize(data, batch_size) ==
    SumSeq([k \in DOMAIN data |->
        data[k].value.shape[1]
        * Prod(SubSeq(data[k].value.shape, 3, Len(data[k].value.shape)))
        * batch_size])

UndividedNew(named_data) ==
    LET f == assert_correct_data_format(named_data)
    IN [fmt |-> f,
        object |-> IF f.exc # "" THEN NoObject
                   ELSE [NoObject EXCEPT !.cls = "Undivided",
                                         !.data = named_data,
                                         !.size = TotalSize(named_data)]]

OnlineNew(shuffle, verbose, seed, named_data) ==
    LET f == assert_correct_data_format(named_data)
    IN [fmt |-> f,
        rnd |-> SeedableInit(seed),
        object |-> IF f.exc # "" THEN NoObject
                   ELSE [NoObject EXCEPT !.cls = "Online",
                                         !.nr_sequences = f.ret,
                                         !.data = named_data,
                                         !.shuffle = shuffle,
                                         !.verbose = verbose,
                                         !.size = OnlineSampleSize(named_data)]]

MinibatchesNew(batch_size, shuffle, verbose, seed, named_data) ==
    LET f == assert_correct_data_format(named_data)
    IN [fmt |-> f,
        rnd |-> SeedableInit(seed),
        object |-> IF f.exc # "" THEN NoObject
                   ELSE [NoObject EXCEPT
                            !.cls = "Minibatches",
                            !.nr_sequences = f.ret,
                            !.data = named_data,
                            !.shuffle = shuffle,
                            !.verbose = verbose,
                            !.batch_size = batch_size,
                            !.size = MinibatchesSampleSize(named_data,
                                                           batch_size)]]

\* The constructor's effect on object i.
Constructed(i, named_data, new) ==
    /\ gen[i].pc = "new"
    /\ self' = [self EXCEPT ![i] = new.object]
    /\ gen' = [gen EXCEPT ![i].pc = IF new.fmt.exc # "" THEN "failed"
                                    ELSE "ready"]
    /\ obs' = [obs EXCEPT ![i].kwargs = named_data, ![i].fmt = new.fmt,
                          ![i].exc = new.fmt.exc]

UndividedInit(i) ==
    /\ gen[i].pc = "new"
    /\ \E named_data \in NamedData :
            Constructed(i, named_data, UndividedNew(named_data))
    /\ UNCHANGED rnd

OnlineInit(i) ==
    /\ gen[i].pc = "new"
    /\ \E shuffle \in BOOLEAN, verbose \in VerboseSettings, seed \in Seeds,
          named_data \in NamedData :
            LET new == OnlineNew(shuffle, verbose, seed, named_data)
            IN /\ Constructed(i, named_data, new)
               /\ rnd' = [rnd EXCEPT ![i] = new.rnd]

MinibatchesInit(i) ==
    /\ gen[i].pc = "new"
    /\ \E batch_size \in BatchSizes, shuffle \in BOOLEAN,
          verbose \in VerboseSettings, seed \in Seeds,
          named_data \in NamedData :
            LET new == MinibatchesNew(batch_size, shuffle, verbose, seed,
                                      named_data)
            IN /\ Constructed(i, named_data, new)
               /\ rnd' = [rnd EXCEPT ![i] = new.rnd]

---------------------------------------------------------------------------
\* What ends a resumption of generator i, other than a yield.

Raise(i, frame, o, exception) ==
    /\ gen' = [gen EXCEPT ![i] = [frame EXCEPT !.pc = "raised"]]
    /\ obs' = [obs EXCEPT ![i] = [o EXCEPT !.exc = exception]]

Exhaust(i, frame, o, r) ==
    /\ gen' = [gen EXCEPT ![i] = [frame EXCEPT !.pc = "exhausted"]]
    /\ obs' = [obs EXCEPT ![i] =
                [o EXCEPT !.orders =
                    Append(@, [indices |-> frame.indices, rnd |-> r])]]

Yield(i, frame, o, line, batch, copies) ==
    /\ gen' = [gen EXCEPT ![i] = [frame EXCEPT !.pc = "yielded",
                                               !.line = line]]
    /\ obs' = [obs EXCEPT ![i] =
                [o EXCEPT !.out = Append(@, batch),
                          !.set_from_numpy = @ + copies]]

MayCall(i, cls) ==
    /\ self[i].cls = cls
    /\ gen[i].pc \in {"ready", "exhausted"}
    /\ obs[i].passes < MaxPasses

---------------------------------------------------------------------------
\* Undivided.__call__

WholeShapes(data) == [k \in DOMAIN data |-> data[k].value.shape]
WholeLos(data) == [k \in DOMAIN data |-> 0]
WholeHis(data) == [k \in DOMAIN data |-> data[k].value.shape[2]]

\* isinstance(self.data, handler.array_type)
UndividedResident(handler) == IsInstance("dict", handler)

\* The else branch: the flat buffer and the views of it.
UndividedDeviceData(data, arr) ==
    [obj |-> "device_data",
     items |-> CopyItems(data, WholeShapes(data), WholeLos(data),
                         WholeHis(data), arr)]

\* The first resumption: up to the yield of line 52 or of line 62.
UndividedCall(i) ==
    /\ MayCall(i, "Undivided")
    /\ UNCHANGED <<self, rnd>>
    /\ \E handler \in Handlers(self[i].data) :
       LET s == self[i]
           o == NewPass(obs[i])
           frame == [NewFrame EXCEPT !.handler = handler]
       IN IF UndividedResident(handler)
          THEN Yield(i, frame, o, 52,
                     [obj |-> "self.data",
                      items |-> SliceItems(s.data, WholeShapes(s.data),
                                           WholeLos(s.data),
                                           WholeHis(s.data))], 0)
          ELSE LET batch == UndividedDeviceData(s.data, s.size)
                   called == [o EXCEPT !.allocate =
                                Append(@, [n |-> s.size,
                                           yielded |-> Len(o.out)])]
                   bound == [frame EXCEPT !.arr = s.size,
                                          !.device_data = batch]
               IN IF ReshapeFails(batch.items)
                  THEN Raise(i, bound, called, "ValueError")
                  ELSE Yield(i, bound, called, 62, batch, Len(s.data))

\* The resumption after a yield: line 52 falls through to the yield of
\* line 62, line 62 ends the generator.
UndividedResume(i) ==
    /\ self[i].cls = "Undivided"
    /\ gen[i].pc = "yielded"
    /\ UNCHANGED <<self, rnd>>
    /\ IF gen[i].line = 52
       THEN IF gen[i].device_data = NoBatch
            THEN Raise(i, gen[i], obs[i], "UnboundLocalError")
            ELSE Yield(i, gen[i], obs[i], 62, gen[i].device_data, 0)
       ELSE Exhaust(i, gen[i], obs[i], rnd[i])

---------------------------------------------------------------------------
\* What Online.__call__ and Minibatches.__call__ do before their loop.

\* A generator shared by the objects instead of one per object.
SharedRnd(i) == rnd[1]

\* self.rnd of object i.
SelfRnd(i) == rnd[i]

\* not all([isinstance(v, handler.array_type) for v in self.data.values()])
NeedCopy(data, handler) ==
    ~ \A k \in DOMAIN data : IsInstance(data[k].key, handler)

\* The frame when the loop is entered, and what was observed up to there.
Entered(i, handler, verbose, indices) ==
    LET s == self[i]
        p_bar == IF Verbose(s.verbose, verbose)
                 THEN progress_bar(s.nr_sequences)
                 ELSE silence
        need_copy == NeedCopy(s.data, handler)
        first == PBarNext(p_bar)
        o == NewPass(obs[i])
    IN [frame |-> [NewFrame EXCEPT !.handler = handler,
                                   !.need_copy = need_copy,
                                   !.arr = IF need_copy THEN s.size ELSE -1,
                                   !.indices = indices,
                                   !.p_bar = first.p_bar],
        o |-> [o EXCEPT !.allocate =
                            IF need_copy
                            THEN Append(@, [n |-> s.size,
                                            yielded |-> Len(o.out)])
                            ELSE @,
                        !.stdout = @ \o first.text]]

\* print(p_bar.send(progress), end=''): the frame and the observations
\* after it, and the exception the send raised.
Sent(frame, o, progress) ==
    LET r == PBarSend(frame.p_bar, progress)
    IN [frame |-> [frame EXCEPT !.p_bar = r.p_bar],
        o |-> [o EXCEPT !.sent = Append(@, progress),
                        !.stdout = @ \o r.text],
        exc |-> r.exc]

---------------------------------------------------------------------------
\* Online.__call__

\* The indices shuffled whatever self.shuffle is.
OnlineIndicesShuffled(i) ==
    RandomShuffle(SelfRnd(i), Arange(self[i].nr_sequences))

\* indices = np.arange(self.nr_sequences), shuffled if self.shuffle.
OnlineIndices(i) ==
    IF self[i].shuffle
    THEN RandomShuffle(SelfRnd(i), Arange(self[i].nr_sequences))
    ELSE [seq |-> Arange(self[i].nr_sequences), rnd |-> rnd[i]]

\* A slice one column too wide.
OnlineSliceWide(idx) == [start |-> idx, stop |-> idx + 2]

\* idx: idx + 1
OnlineSlice(idx) == [start |-> idx, stop |-> idx + 1]

\* device_data for the sample idx.
OnlineDeviceData(data, need_copy, arr, idx) ==
    LET sl == OnlineSlice(idx)
        shapes == [k \in DOMAIN data |->
                      Slice1(data[k].value.shape, sl.start, sl.stop)]
        los == [k \in DOMAIN data |-> SliceLo(data[k].value.shape, sl.start)]
        his == [k \in DOMAIN data |->
                   SliceHi(data[k].value.shape, sl.start, sl.stop)]
    IN [obj |-> "device_data",
        items |-> IF need_copy
                  THEN CopyItems(data, shapes, los, his, arr)
                  ELSE SliceItems(data, shapes, los, his)]

\* p_bar.send(i + 1)
OnlineProgress(i) == i + 1

\* The for statement with frame.i samples done: the next sample is staged
\* and yielded, or the generator ends.
OnlineLoop(i, frame, o, r) ==
    IF frame.i < Len(frame.indices)
    THEN LET batch == OnlineDeviceData(self[i].data, frame.need_copy,
                                       frame.arr, frame.indices[frame.i + 1])
         IN IF ReshapeFails(batch.items)
            THEN Raise(i, frame, o, "ValueError")
            ELSE Yield(i, [frame EXCEPT !.device_data = batch], o, 107, batch,
                       IF frame.need_copy THEN Len(self[i].data) ELSE 0)
    ELSE Exhaust(i, frame, o, r)

\* The first resumption: up to the first yield, or to the end.
OnlineCall(i) ==
    /\ MayCall(i, "Online")
    /\ \E handler \in Handlers(self[i].data), verbose \in BOOLEAN :
       LET sh == OnlineIndices(i)
           e == Entered(i, handler, verbose, sh.seq)
       IN /\ rnd' = [rnd EXCEPT ![i] = sh.rnd]
          /\ OnlineLoop(i, e.frame, e.o, sh.rnd)
    /\ UNCHANGED self

\* The resumption after a yield: the progress is sent and printed, then the
\* loop goes on.
OnlineResume(i) ==
    /\ self[i].cls = "Online"
    /\ gen[i].pc = "yielded"
    /\ UNCHANGED <<self, rnd>>
    /\ LET t == Sent(gen[i], obs[i], OnlineProgress(gen[i].i))
       IN IF t.exc # ""
          THEN Raise(i, t.frame, t.o, t.exc)
          ELSE OnlineLoop(i, [t.frame EXCEPT !.i = @ + 1], t.o, rnd[i])

---------------------------------------------------------------------------
\* Minibatches.__call__

\* The quotient rounded down instead of up.
NrChunksFloor(nr_sequences, batch_size) == nr_sequences \div batch_size

\* int(math.ceil(self.nr_sequences / self.batch_size))
NrChunks(nr_sequences, batch_size) ==
    (nr_sequences + batch_size - 1) \div batch_size

\* indices = np.arange(...), shuffled if self.shuffle.
MinibatchesIndices(i) ==
    LET n == NrChunks(self[i].nr_sequences, self[i].batch_size)
    IN IF self[i].shuffle
       THEN RandomShuffle(SelfRnd(i), Arange(n))
       ELSE [seq |-> Arange(n), rnd |-> rnd[i]]

\* A chunk that stops one column early.
ChunkShort(idx, batch_size) ==
    [start |-> idx * batch_size, stop |-> (idx + 1) * batch_size - 1]

\* slice(idx * self.batch_size, (idx + 1) * self.batch_size)
Chunk(idx, batch_size) ==
    [start |-> idx * batch_size, stop |-> (idx + 1) * batch_size]

\* device_data for the chunk idx.
MinibatchesDeviceData(data, need_copy, arr, idx, batch_size) ==
    LET sl == Chunk(idx, batch_size)
        shapes == [k \in DOMAIN data |->
                      Slice1(data[k].value.shape, sl.start, sl.stop)]
        los == [k \in DOMAIN data |-> SliceLo(data[k].value.shape, sl.start)]
        his == [k \in DOMAIN data |->
                   SliceHi(data[k].value.shape, sl.start, sl.stop)]
    IN [obj |-> "device_data",
        items |-> IF need_copy
                  THEN CopyItems(data, shapes, los, his, arr)
                  ELSE SliceItems(data, shapes, los, his)]

\* The count of the chunks before this one.
MinibatchesProgressBefore(i, batch_size) == i * batch_size

\* p_bar.send((i + 1) * self.batch_size)
MinibatchesProgress(i, batch_size) == (i + 1) * batch_size

MinibatchesLoop(i, frame, o, r) ==
    IF frame.i < Len(frame.indices)
    THEN LET batch == MinibatchesDeviceData(self[i].data, frame.need_copy,
                                            frame.arr,
                                            frame.indices[frame.i + 1],
                                            self[i].batch_size)
         IN IF ReshapeFails(batch.items)
            THEN Raise(i, frame, o, "ValueError")
            ELSE Yield(i, [frame EXCEPT !.device_data = batch], o, 162, batch,
                       IF frame.need_copy THEN Len(self[i].data) ELSE 0)
    ELSE Exhaust(i, frame, o, r)

MinibatchesCall(i) ==
    /\ MayCall(i, "Minibatches")
    /\ \E handler \in Handlers(self[i].data), verbose \in BOOLEAN :
       LET sh == MinibatchesIndices(i)
           e == Entered(i, handler, verbose, sh.seq)
       IN /\ rnd' = [rnd EXCEPT ![i] = sh.rnd]
          /\ MinibatchesLoop(i, e.frame, e.o, sh.rnd)
    /\ UNCHANGED self

MinibatchesResume(i) ==
    /\ self[i].cls = "Minibatches"
    /\ gen[i].pc = "yielded"
    /\ UNCHANGED <<self, rnd>>
    /\ LET t == Sent(gen[i], obs[i],
                     MinibatchesProgress(gen[i].i, self[i].batch_size))
       IN IF t.exc # ""
          THEN Raise(i, t.frame, t.o, t.exc)
          ELSE MinibatchesLoop(i, [t.frame EXCEPT !.i = @ + 1], t.o, rnd[i])

---------------------------------------------------------------------------
\* One iterator object, from its construction on.

Init ==
    /\ self = [i \in Inst |-> NoObject]
    /\ rnd = [i \in Inst |-> 0]
    /\ gen = [i \in Inst |-> NewFrame]
    /\ obs = [i \in Inst |-> NewObs]

Next ==
    \/ UndividedInit(1)
    \/ OnlineInit(1)
    \/ MinibatchesInit(1)
    \/ UndividedCall(1)
    \/ UndividedResume(1)
    \/ OnlineCall(1)
    \/ OnlineResume(1)
    \/ MinibatchesCall(1)
    \/ MinibatchesResume(1)

Spec == Init /\ [][Next]_vars

---------------------------------------------------------------------------
\* Two objects of one class built from the same arguments, each iterated
\* on its own.

TwinData == {<<[key |-> Keys[1], value |-> Array(<<2, n, 3>>)]>> : n \in 0..MaxN}

InitTwin ==
    \E cls \in {"Online", "Minibatches"}, batch_size \in BatchSizes,
       seed \in Seeds, named_data \in TwinData :
        LET new == IF cls = "Online"
                   THEN OnlineNew(TRUE, "False", seed, named_data)
                   ELSE MinibatchesNew(batch_size, TRUE, "False", seed,
                                       named_data)
        IN /\ self = [i \in Inst |-> new.object]
           /\ rnd = [i \in Inst |-> new.rnd]
           /\ gen = [i \in Inst |-> [NewFrame EXCEPT !.pc = "ready"]]
           /\ obs = [i \in Inst |-> [NewObs EXCEPT !.kwargs = named_data,
                                                   !.fmt = new.fmt]]

NextTwin ==
    \E i \in Inst :
        \/ OnlineCall(i)
        \/ OnlineResume(i)
        \/ MinibatchesCall(i)
        \/ MinibatchesResume(i)

SpecTwin == InitTwin /\ [][NextTwin]_vars

---------------------------------------------------------------------------
\* What the properties read.

Running(i) == gen[i].pc \in {"yielded", "exhausted", "raised"}

Complete(i) == gen[i].pc = "exhausted"

\* The axis-1 extents of the arrays of a batch.
Extents(batch) ==
    {batch.items[m].value.shape[2] : m \in DOMAIN batch.items}

\* The batch holds the columns lo..hi-1 of every array.
Holds(batch, c) ==
    \A m \in DOMAIN batch.items :
        batch.items[m].value.lo <= c /\ c < batch.items[m].value.hi

\* The smallest number of chunks of b columns that hold n columns.
CeilDiv(n, b) == CHOOSE c \in 0..n : c * b >= n /\ (c - 1) * b < n

IsMinibatches(i) == self[i].cls = "Minibatches"

IsOnline(i) == self[i].cls = "Online"

\* C1: a complete pass of Minibatches yields ceil(N/B) batches, the axis-1
\* extents of the batches sum to N for every array, and every sequence index
\* 0..N-1 is in exactly one batch (in at most one while the pass runs).
C1_MinibatchesPartition ==
    \A i \in Inst :
        (IsMinibatches(i) /\ Running(i)) =>
            LET N == self[i].nr_sequences
                B == self[i].batch_size
                out == obs[i].out
            IN /\ \A c \in 0..(N - 1) :
                    Cardinality({k \in DOMAIN out : Holds(out[k], c)}) <= 1
               /\ Complete(i) =>
                    /\ Len(out) = CeilDiv(N, B)
                    /\ \A m \in DOMAIN self[i].data :
                        SumSeq([k \in DOMAIN out |->
                                    out[k].items[m].value.shape[2]]) = N
                    /\ \A c \in 0..(N - 1) :
                        Cardinality({k \in DOMAIN out : Holds(out[k], c)}) = 1

C1_Witness ==
    \E i \in Inst :
        /\ IsMinibatches(i) /\ Complete(i)
        /\ self[i].nr_sequences = 3 /\ self[i].batch_size = 2
        /\ self[i].shuffle /\ gen[i].need_copy
        /\ Len(obs[i].out) = 2

\* C2 as claimed: in a complete pass of Minibatches every batch but the last
\* one yielded has axis-1 extent batch_size.
C2_AllButLastYieldedFull ==
    \A i \in Inst :
        (IsMinibatches(i) /\ Complete(i)) =>
            \A k \in 1..(Len(obs[i].out) - 1) :
                Extents(obs[i].out[k]) = {self[i].batch_size}

\* C2 as amended: every batch yielded by Minibatches has axis-1 extent
\* batch_size, except the chunk with the highest chunk index of the pass;
\* with shuffle off that chunk is the last one yielded.
C2_OnlyHighestChunkShort ==
    \A i \in Inst :
        (IsMinibatches(i) /\ Running(i)) =>
            LET out == obs[i].out
                highest == SetMax({gen[i].indices[k] :
                                    k \in DOMAIN gen[i].indices})
            IN /\ \A k \in DOMAIN out :
                    \/ Extents(out[k]) = {self[i].batch_size}
                    \/ gen[i].indices[k] = highest
               /\ ~self[i].shuffle =>
                    \A k \in DOMAIN out :
                        \/ Extents(out[k]) = {self[i].batch_size}
                        \/ k = Len(gen[i].indices)

C2_Witness ==
    \E i \in Inst :
        /\ IsMinibatches(i) /\ Complete(i) /\ self[i].shuffle
        /\ Len(obs[i].out) >= 2
        /\ Extents(obs[i].out[1]) # {self[i].batch_size}

\* C3: a complete pass of Online yields N batches, every array of a batch is
\* the source array cut to one column of axis 1 with the other axes whole,
\* and the columns selected over the pass are 0..N-1, each once.
C3_OnlineOnePerSequence ==
    \A i \in Inst :
        (IsOnline(i) /\ Running(i)) =>
            LET N == self[i].nr_sequences
                out == obs[i].out
                data == self[i].data
            IN /\ Len(out) <= N
               /\ \A k \in DOMAIN out :
                    /\ DOMAIN out[k].items = DOMAIN data
                    /\ \A m \in DOMAIN data :
                        /\ out[k].items[m].key = data[m].key
                        /\ out[k].items[m].value.shape =
                            [data[m].value.shape EXCEPT ![2] = 1]
                        /\ out[k].items[m].value.lo = gen[i].indices[k]
                        /\ out[k].items[m].value.hi = gen[i].indices[k] + 1
               /\ Complete(i) =>
                    /\ Len(out) = N
                    /\ \A c \in 0..(N - 1) :
                        Cardinality({k \in DOMAIN out : Holds(out[k], c)}) = 1

C3_Witness ==
    \E i \in Inst :
        /\ IsOnline(i) /\ Complete(i) /\ self[i].shuffle
        /\ self[i].nr_sequences = 3
        /\ Len(self[i].data) = 2
        /\ gen[i].need_copy
        /\ gen[i].indices # Arange(3)

\* C4: whatever the handler's isinstance check answers, a pass of Undivided
\* yields one batch with the keys and shapes of the dataset, and the next
\* resumption ends the generator: no second yield, no error.
C4_UndividedOneYield ==
    \A i \in Inst :
        (self[i].cls = "Undivided" /\ Running(i)) =>
            LET out == obs[i].out
                data == self[i].data
            IN /\ gen[i].pc # "raised"
               /\ Len(out) = 1
               /\ DOMAIN out[1].items = DOMAIN data
               /\ \A m \in DOMAIN data :
                    /\ out[1].items[m].key = data[m].key
                    /\ out[1].items[m].value.shape = data[m].value.shape

\* Every array of the dataset is an instance of handler.array_type.
AllResident(i) ==
    \A k \in DOMAIN self[i].data :
        IsInstance(self[i].data[k].key, gen[i].handler)

\* C5: when every array is backend-resident, a pass calls neither
\* handler.allocate nor handler.set_from_numpy, and yields the original
\* mapping (Undivided) or slices of the original arrays (Online, Minibatches).
C5_ResidentZeroCopy ==
    \A i \in Inst :
        (Running(i) /\ AllResident(i)) =>
            /\ obs[i].allocate = <<>>
            /\ obs[i].set_from_numpy = 0
            /\ \A k \in DOMAIN obs[i].out :
                /\ self[i].cls = "Undivided" => obs[i].out[k].obj = "self.data"
                /\ \A m \in DOMAIN obs[i].out[k].items :
                    obs[i].out[k].items[m].value.base = "data"

\* The mapping is malformed: a value without shape, a value of fewer than
\* 3 axes, or two values of different axis-1 extents.
Malformed(named_data) ==
    IF \E k \in DOMAIN named_data :
            \/ ~named_data[k].value.has_shape
            \/ Len(named_data[k].value.shape) < 3
    THEN TRUE
    ELSE \E k, m \in DOMAIN named_data :
            named_data[k].value.shape[2] # named_data[m].value.shape[2]

\* C6: for every mapping, the empty one included, the validator raises
\* IteratorValidationError when the mapping is malformed and returns the
\* common axis-1 extent otherwise; it raises nothing else.
C6_ValidatorTwoOutcomes ==
    \A i \in Inst :
        gen[i].pc # "new" =>
            LET named_data == obs[i].kwargs
                fmt == obs[i].fmt
            IN IF Malformed(named_data)
               THEN fmt.exc = "IteratorValidationError"
               ELSE /\ fmt.exc = ""
                    /\ \A k \in DOMAIN named_data :
                        fmt.ret = named_data[k].value.shape[2]

C8_UnshuffledInOrder ==
    [][\A i \in Inst :
        (gen[i].pc # "new" /\ ~self[i].shuffle
            /\ (IsOnline(i) \/ IsMinibatches(i))) =>
            /\ rnd'[i] = rnd[i]
            /\ LET n == IF IsOnline(i)
                        THEN self[i].nr_sequences
                        ELSE CeilDiv(self[i].nr_sequences, self[i].batch_size)
                   width == IF IsOnline(i) THEN 1 ELSE self[i].batch_size
                   out == obs'[i].out
               IN /\ Len(out) <= n
                  /\ \A k \in DOMAIN out :
                        \A m \in DOMAIN out[k].items :
                            out[k].items[m].value.lo = (k - 1) * width
                  /\ gen'[i].pc = "exhausted" => Len(out) = n]_vars

C8_Witness ==
    \E i \in Inst :
        /\ IsMinibatches(i) /\ Complete(i) /\ ~self[i].shuffle
        /\ obs[i].passes = 2
        /\ Len(obs[i].out) = 2
        /\ rnd[i] # 0

\* The text printed is the prefix and the first n glyphs of the bar.
BarUpTo(text, n) == text = <<prefix>> \o SubSeq(bar, 1, n)

\* C9: in a verbose pass of Online or Minibatches over N >= 1 sequences the
\* reporter is sent k (Online) or k * batch_size (Minibatches) on the
\* resumption after the k-th batch; it finishes on the send after the last
\* batch and on no earlier one, and is never resumed after that; the text
\* printed over the pass is the prefix, the whole bar and the suffix.
C9_ProgressReported ==
    \A i \in Inst :
        (Running(i) /\ (IsOnline(i) \/ IsMinibatches(i))
            /\ gen[i].p_bar.fn = "progress_bar"
            /\ self[i].nr_sequences >= 1) =>
            LET sent == obs[i].sent
                text == obs[i].stdout
                width == IF IsOnline(i) THEN 1 ELSE self[i].batch_size
            IN /\ gen[i].pc # "raised"
               /\ Len(sent) = IF Complete(i) THEN Len(obs[i].out)
                              ELSE Len(obs[i].out) - 1
               /\ \A k \in DOMAIN sent : sent[k] = k * width
               /\ (gen[i].p_bar.pc = "line24") <=> Complete(i)
               /\ IF Complete(i)
                  THEN text = <<prefix>> \o bar \o <<suffix>>
                  ELSE /\ Len(text) <= Len(bar)
                       /\ BarUpTo(text, Len(text) - 1)

C9_Witness ==
    \E i \in Inst :
        /\ IsMinibatches(i) /\ Complete(i)
        /\ gen[i].p_bar.fn = "progress_bar"
        /\ self[i].nr_sequences = 3 /\ self[i].batch_size = 2
        /\ obs[i].sent = <<2, 4>>

\* Some array of the dataset is not an instance of handler.array_type.
SomeNotResident(i) == ~AllResident(i)

\* C10: when some array is not backend-resident, a pass of Undivided, Online
\* or Minibatches calls handler.allocate once, before the first batch, and
\* the arrays of every batch are consecutive, disjoint ranges of that buffer
\* that start at offset 0, have the element counts of their source slices and
\* end within the buffer.
C10_OneFlatBuffer ==
    \A i \in Inst :
        (Running(i) /\ SomeNotResident(i)) =>
            /\ Len(obs[i].allocate) = 1
            /\ obs[i].allocate[1].yielded = 0
            /\ \A k \in DOMAIN obs[i].out :
                LET items == obs[i].out[k].items
                IN \A m \in DOMAIN items :
                    /\ items[m].value.base = "arr"
                    /\ items[m].value.len = Size(items[m].value.shape)
                    /\ items[m].value.shape[2] =
                        items[m].value.hi - items[m].value.lo
                    /\ items[m].value.off =
                        IF m = 1 THEN 0
                        ELSE items[m - 1].value.off + items[m - 1].value.len
                    /\ items[m].value.off + items[m].value.len
                        <= obs[i].allocate[1].n

====
